---- MODULE Spec2Model ----
(***************************************************************************)
(* Model of the Student Project Portal API (src/main.py, src/schemas.py).  *)
(*                                                                         *)
(* The document store is four collections (user, project, payment,        *)
(* message), each a sequence of documents in insertion order.  Spec runs   *)
(* every request handler to completion (sequential execution); SpecConc    *)
(* runs two request workers whose handlers interleave at the store calls.  *)
(*                                                                         *)
(* Optional[T] values are sequences of length <= 1: None is <<>> and a     *)
(* present value v is <<v>>.  An ObjectId is a natural number, its string  *)
(* form is <<"oid", n>>; every other id string is malformed.               *)
(***************************************************************************)
EXTENDS Naturals, Sequences, FiniteSets

\* users, projects, payments, messages: the four collections.
\* now: the wall clock.  nextId: the next ObjectId the store hands out.
\* req, resp: the request last served (its operation, and its arguments
\* where the response does not show them) and the response to it.
\* procs: the two request workers of SpecConc.
VARIABLES users, projects, payments, messages, now, nextId, req, resp, procs

vars == <<users, projects, payments, messages, now, nextId, req, resp, procs>>
store == <<users, projects, payments, messages>>

\* ------------------------------------------------------------- bounds
\* User, project and payment documents the store may hold in total.
MaxDocs == 2
\* Largest reading of the wall clock.
MaxTime == 1
\* Messages the store may hold.
MaxMessages == 3

\* ------------------------------------------------------------- values
None == <<>>
Some(v) == <<v>>

\* str(ObjectId) and ObjectId(str): the string form of ObjectId n.
StrOfId(n) == <<"oid", n>>
\* A string that is not 24 hex digits.
BadIdString == <<"bad", 0>>
IsWellFormedId(s) == s[1] = "oid"
\* bson.ObjectId(s): the ObjectId, defined only for a well-formed string.
ObjectIdOf(s) == s[2]
IdStrings == {StrOfId(n) : n \in 1..MaxDocs} \cup {BadIdString}

\* Characters of names and e-mail local parts, and str.title().
Letters == {"a", "b", "A", "B"}
UpperOf(c) == CASE c = "a" -> "A" [] c = "b" -> "B" [] OTHER -> c
LowerOf(c) == CASE c = "A" -> "a" [] c = "B" -> "b" [] OTHER -> c
\* str.title(): the first letter of every run of letters in upper case, the
\* other letters in lower case, every other character kept.
Title(s) ==
    [i \in 1..Len(s) |->
        IF i = 1 \/ s[i - 1] \notin Letters THEN UpperOf(s[i]) ELSE LowerOf(s[i])]

\* An e-mail address local@domain (EmailStr: exactly one "@").
Emails == {[local |-> <<"a", "b">>, domain |-> "x.com"],
           [local |-> <<"b", ".", "a">>, domain |-> "x.com"]}
\* payload.email.split("@")[0]
LocalPart(e) == e.local
RegisterNames == {<<"A", "l">>, <<"B", "o">>}

\* Literal sets of schemas.Project.
Technologies == {"Python", "Java", "AI/ML", "IoT", "Web", "Android"}
Statuses == {"Requested", "In Review", "In Development", "Completed"}
PaymentStatuses == {"pending", "verified"}

\* ------------------------------------------------------------- store
\* collection.find_one(filter), hits being the positions of the documents
\* the filter matches: the first of them in natural order; None when there
\* is none.
FindOne(coll, hits) ==
    IF hits = {} THEN None
    ELSE Some(coll[CHOOSE i \in hits : \A j \in hits : i <= j])

FindById(coll, oid) == FindOne(coll, {i \in 1..Len(coll) : coll[i]._id = oid})

\* database.create_document: the model's fields plus created_at and
\* updated_at, inserted under a fresh ObjectId.
NewDocument(fields, oid, t) ==
    [k \in DOMAIN fields \cup {"_id", "created_at", "updated_at"} |->
        CASE k = "_id" -> oid
          [] k = "created_at" -> t
          [] k = "updated_at" -> t
          [] OTHER -> fields[k]]

\* update_one({"_id": oid}, {"$set": update}): the first document with that id
\* gets the fields of update; the others are untouched.
MatchedCount(coll, oid) == IF \E i \in 1..Len(coll) : coll[i]._id = oid THEN 1 ELSE 0

\* A $set that extends an array field instead of replacing it.
SetFieldsAppending(doc, update) ==
    [k \in DOMAIN doc \cup DOMAIN update |->
        IF k \notin DOMAIN update THEN doc[k]
        ELSE IF k = "deliverables" THEN doc[k] \o update[k]
        ELSE update[k]]

\* A whole-document replace: the enum fields the update does not name fall
\* back to their schema defaults.
SetFieldsReplacing(doc, update) ==
    [k \in DOMAIN doc \cup DOMAIN update |->
        IF k \in DOMAIN update THEN update[k]
        ELSE IF k = "status" THEN "Requested"
        ELSE IF k = "paymentStatus" THEN "pending"
        ELSE doc[k]]

SetFields(doc, update) ==
    [k \in DOMAIN doc \cup DOMAIN update |->
        IF k \in DOMAIN update THEN update[k] ELSE doc[k]]

UpdateOneSet(coll, oid, update) ==
    [i \in 1..Len(coll) |->
        IF coll[i]._id = oid THEN SetFields(coll[i], update) ELSE coll[i]]

\* ------------------------------------------------------------- output
\* datetime.isoformat()
IsoFormat(t) == <<"iso", t>>
TimeFields == {"created_at", "updated_at"}
OptionalTimeFields == {"verifiedDate"}

\* to_str_id: _id becomes id, the ObjectId's string; every datetime value is
\* replaced by its ISO text; the other fields are copied.
to_str_id(doc) ==
    [k \in (DOMAIN doc \ {"_id"}) \cup {"id"} |->
        CASE k = "id" -> StrOfId(doc._id)
          [] k \in TimeFields -> IsoFormat(doc[k])
          [] k \in OptionalTimeFields ->
                IF doc[k] = None THEN None ELSE Some(IsoFormat(doc[k][1]))
          [] OTHER -> doc[k]]

Response(status, kind, docs) == [status |-> status, kind |-> kind, docs |-> docs]
NoRequest == [op |-> "none"]
NoResponse == Response(0, "none", <<>>)

\* The wall clock read by a store call made after the clock read t.
LaterTimes(t) == {u \in {t, t + 1} : u <= MaxTime}

\* ------------------------------------------------------------- users
UserView(u) == [id |-> StrOfId(u._id), name |-> u.name, email |-> u.email, role |-> u.role]

\* schemas.User(name, email, role="student")
UserFields(name, email) == [name |-> name, email |-> email, role |-> "student"]

\* The user a register or login call creates when its lookup found none.
CreatedUser(name, email, oid, t) == NewDocument(UserFields(name, email), oid, t)

\* A lookup whose filter also asks for the admin role: it misses students.
ExistingAdmin(email) ==
    FindOne(users, {i \in 1..Len(users) : users[i].email = email /\ users[i].role = "admin"})

\* db["user"].find_one({"email": payload.email})
ExistingUser(email) == FindOne(users, {i \in 1..Len(users) : users[i].email = email})

\* register_user, run to completion.
register_user(name, email) ==
    LET existing == ExistingUser(email)
    IN /\ req' = [op |-> "register", name |-> name, email |-> email]
       /\ IF existing # None
          THEN /\ resp' = Response(200, "user", <<UserView(existing[1])>>)
               /\ UNCHANGED <<users, nextId>>
          ELSE /\ nextId <= MaxDocs
               /\ users' = Append(users, CreatedUser(name, email, nextId, now))
               /\ nextId' = nextId + 1
               /\ resp' = Response(200, "user", <<UserView(CreatedUser(name, email, nextId, now))>>)
       /\ UNCHANGED <<projects, payments, messages, now, procs>>

\* login_user, run to completion.
login_user(email) ==
    LET user == ExistingUser(email)
        name == Title(LocalPart(email))
    IN /\ req' = [op |-> "login", email |-> email]
       /\ IF user = None
          THEN /\ nextId <= MaxDocs
               /\ users' = Append(users, CreatedUser(name, email, nextId, now))
               /\ nextId' = nextId + 1
               /\ resp' = Response(200, "user", <<UserView(CreatedUser(name, email, nextId, now))>>)
          ELSE /\ resp' = Response(200, "user", <<UserView(user[1])>>)
               /\ UNCHANGED <<users, nextId>>
       /\ UNCHANGED <<projects, payments, messages, now, procs>>

\* HTTPException(status_code=404, ...) and HTTPException(status_code=400, ...)
NotFoundStatus == 404
InvalidIdStatus == 400

\* The status get_user answers with.  ObjectId(user_id) raises for a malformed
\* string; the 404 raised for a missing document is raised inside the try
\* block, and `except Exception` turns it into the 400 as well.
GetUserStatus(user_id) ==
    IF ~IsWellFormedId(user_id) THEN InvalidIdStatus
    ELSE IF FindById(users, ObjectIdOf(user_id)) = None THEN InvalidIdStatus
    ELSE 200

get_user(user_id) ==
    /\ req' = [op |-> "get_user", id |-> user_id]
    /\ resp' = IF GetUserStatus(user_id) = 200
               THEN Response(200, "doc", <<to_str_id(FindById(users, ObjectIdOf(user_id))[1])>>)
               ELSE Response(GetUserStatus(user_id), "error", <<>>)
    /\ UNCHANGED <<store, now, nextId, procs>>

\* ------------------------------------------------------------- projects
StudentIds == {"s1"}
Titles == {"Portal"}
TechnologyInputs == {"Java", "COBOL"}
FileRefs == {"a.pdf", "b.pdf"}
\* ProjectCreate.fileUrl: absent, the empty string, or a file reference.
FileUrlInputs == {None, Some("")} \cup {Some(f) : f \in FileRefs}

\* schemas.Project(studentId, title, technology, description): the other
\* fields take their defaults.
ProjectFields(studentId, title, technology, description) ==
    [studentId |-> studentId, title |-> title, description |-> description,
     technology |-> technology, status |-> "Requested", paymentStatus |-> "pending",
     paymentProofURL |-> None, adminRemarks |-> None, deliverables |-> <<>>]

\* Project(...) raises a validation error unless technology is in the Literal.
ProjectValid(technology) == technology \in Technologies

\* `if payload.fileUrl:` an absent or empty fileUrl attaches nothing.
Truthy(opt) == opt # None /\ opt[1] # ""

\* {"$push": {field: f}}: f is appended whether or not it is an element.
Push(list, f) == Append(list, f)

\* {"$addToSet": {field: f}} on an array: f is appended unless it is an element.
AddToSet(list, f) ==
    IF \E i \in 1..Len(list) : list[i] = f THEN list ELSE Append(list, f)

\* update_one({"_id": oid}, {"$addToSet": {"deliverables": f}}): the update
\* document holds no other operator, so no other field is written.
AttachDeliverable(doc, f) == [doc EXCEPT !.deliverables = AddToSet(doc.deliverables, f)]

UpdateOneAttach(coll, oid, f) ==
    [i \in 1..Len(coll) |->
        IF coll[i]._id = oid THEN AttachDeliverable(coll[i], f) ELSE coll[i]]

\* create_project, run to completion: the insert, then the attach when
\* fileUrl is truthy (a later store call, made when the clock reads t2), then
\* the re-read.
create_project(studentId, title, technology, description, fileUrl) ==
    /\ req' = [op |-> "create_project"]
    /\ IF ~ProjectValid(technology)
       THEN /\ resp' = Response(500, "error", <<>>)
            /\ UNCHANGED <<projects, nextId, now>>
       ELSE /\ nextId <= MaxDocs
            /\ \E t2 \in LaterTimes(now) :
                LET inserted == Append(projects,
                        NewDocument(ProjectFields(studentId, title, technology, description),
                                    nextId, now))
                    attached == IF Truthy(fileUrl)
                                THEN UpdateOneAttach(inserted, nextId, fileUrl[1])
                                ELSE inserted
                IN /\ projects' = attached
                   /\ now' = t2
                   /\ resp' = Response(200, "doc", <<to_str_id(FindById(attached, nextId)[1])>>)
            /\ nextId' = nextId + 1
    /\ UNCHANGED <<users, payments, messages, procs>>

\* ProjectUpdate: four optional fields, none validated against schemas.Project.
ProjectUpdate(status, paymentStatus, adminRemarks, deliverables) ==
    [status |-> status, paymentStatus |-> paymentStatus,
     adminRemarks |-> adminRemarks, deliverables |-> deliverables]

ProjectUpdateInputs ==
    {ProjectUpdate(None, None, None, None),
     ProjectUpdate(Some("Completed"), None, None, None),
     ProjectUpdate(Some("Shipped"), None, None, None),
     ProjectUpdate(None, Some("paid"), None, None),
     ProjectUpdate(None, None, Some("ok"), Some(<<"a.pdf">>)),
     ProjectUpdate(None, None, None, Some(<<>>))}

\* Fields whose schema type is Optional: a document holds them as None or
\* Some(v).
OptionalFields == {"description", "paymentProofURL", "adminRemarks", "projectId",
                   "transactionId", "verifiedBy", "verifiedDate"}

\* payload.model_dump(exclude_none=True): the fields that are present, each
\* with its value.
ModelDumpExcludeNone(payload) ==
    [k \in {f \in DOMAIN payload : payload[f] # None} |->
        IF k \in OptionalFields THEN payload[k] ELSE payload[k][1]]

\* update["updated_at"] = datetime.now(timezone.utc)
Stamped(update, t) ==
    [k \in DOMAIN update \cup {"updated_at"} |->
        IF k = "updated_at" THEN t ELSE update[k]]

\* The outcome of the PATCH handlers (update_project, update_payment) on a
\* collection: the response status and the collection afterwards.  An empty
\* update returns before the id is decoded.  The 404 raised when nothing
\* matched is raised inside the try block and leaves as the 400.
PatchStatus(coll, id, update) ==
    IF DOMAIN update = {} THEN 200
    ELSE IF ~IsWellFormedId(id) THEN InvalidIdStatus
    ELSE IF MatchedCount(coll, ObjectIdOf(id)) = 0 THEN InvalidIdStatus
    ELSE 200

\* A handler that stamps and writes before looking at the field set.
PatchStoreStamping(coll, id, update, t) ==
    IF ~IsWellFormedId(id) THEN coll
    ELSE UpdateOneSet(coll, ObjectIdOf(id), Stamped(update, t))

PatchStore(coll, id, update, t) ==
    IF DOMAIN update = {} \/ ~IsWellFormedId(id) THEN coll
    ELSE UpdateOneSet(coll, ObjectIdOf(id), Stamped(update, t))

PatchResponse(coll, id, update, t) ==
    IF DOMAIN update = {} THEN Response(200, "not_updated", <<>>)
    ELSE IF PatchStatus(coll, id, update) # 200
    THEN Response(PatchStatus(coll, id, update), "error", <<>>)
    ELSE Response(200, "doc",
            <<to_str_id(FindById(PatchStore(coll, id, update, t), ObjectIdOf(id))[1])>>)

\* update_project, run to completion.
update_project(project_id, payload) ==
    LET update == ModelDumpExcludeNone(payload)
    IN /\ req' = [op |-> "update_project"]
       /\ projects' = PatchStore(projects, project_id, update, now)
       /\ resp' = PatchResponse(projects, project_id, update, now)
       /\ UNCHANGED <<users, payments, messages, now, nextId, procs>>

\* ------------------------------------------------------------- payments
Amounts == {10}

\* schemas.Payment(studentId, projectId, amount, transactionId, paymentProofURL)
PaymentFields(studentId, projectId, amount, transactionId, paymentProofURL) ==
    [studentId |-> studentId, projectId |-> projectId, amount |-> amount,
     transactionId |-> transactionId, paymentProofURL |-> paymentProofURL,
     verified |-> FALSE, verifiedBy |-> None, verifiedDate |-> None]

\* create_payment, run to completion (amount >= 0 holds of every Amounts).
create_payment(studentId, projectId, amount, transactionId, paymentProofURL) ==
    LET doc == NewDocument(
                 PaymentFields(studentId, projectId, amount, transactionId, paymentProofURL),
                 nextId, now)
    IN /\ nextId <= MaxDocs
       /\ req' = [op |-> "create_payment"]
       /\ payments' = Append(payments, doc)
       /\ nextId' = nextId + 1
       /\ resp' = Response(200, "doc", <<to_str_id(doc)>>)
       /\ UNCHANGED <<users, projects, messages, now, procs>>

PaymentUpdate(verified, verifiedBy, verifiedDate) ==
    [verified |-> verified, verifiedBy |-> verifiedBy, verifiedDate |-> verifiedDate]

PaymentUpdateInputs ==
    {PaymentUpdate(None, None, None),
     PaymentUpdate(Some(TRUE), None, None),
     PaymentUpdate(None, Some("admin"), None),
     PaymentUpdate(Some(TRUE), Some("admin"), Some(1))}

\* update_payment, run to completion.
update_payment(payment_id, payload) ==
    LET update == ModelDumpExcludeNone(payload)
    IN /\ req' = [op |-> "update_payment"]
       /\ payments' = PatchStore(payments, payment_id, update, now)
       /\ resp' = PatchResponse(payments, payment_id, update, now)
       /\ UNCHANGED <<users, projects, messages, now, nextId, procs>>

\* ------------------------------------------------------------- messages
UserIds == {"u1", "u2"}
Contents == {"hi"}

\* send_message, run to completion.
send_message(fromUserId, toUserId, content) ==
    LET doc == NewDocument(
                 [fromUserId |-> fromUserId, toUserId |-> toUserId, content |-> content],
                 nextId, now)
    IN /\ Len(messages) < MaxMessages
       /\ req' = [op |-> "send_message"]
       /\ messages' = Append(messages, doc)
       /\ nextId' = nextId + 1
       /\ resp' = Response(200, "doc", <<to_str_id(doc)>>)
       /\ UNCHANGED <<users, projects, payments, now, procs>>

\* The {"$or": [{"fromUserId": userId}, {"toUserId": userId}]} filter.
MessageFilter(d, userId) == d.fromUserId = userId \/ d.toUserId = userId

\* .sort("created_at", 1): the key comparison of an ascending sort.
SortedAscending(a, b) == a.created_at <= b.created_at

\* .sort("created_at", -1): the key comparison of a descending sort.
SortedDescending(a, b) == a.created_at >= b.created_at

\* find(filter).sort("created_at", -1), hits being the positions of the
\* documents the filter matches: those documents, each once, in an order the
\* sort allows (the store fixes no order among equal keys).
FindSorted(coll, hits) ==
    LET n == Cardinality(hits)
        orders == {f \in [1..n -> hits] :
                      /\ \A i, j \in 1..n : i # j => f[i] # f[j]
                      /\ \A i \in 1..n : i < n => SortedDescending(coll[f[i]], coll[f[i + 1]])}
    IN {[i \in 1..n |-> coll[f[i]]] : f \in orders}

\* list_messages
list_messages(userId) ==
    /\ req' = [op |-> "list_messages", userId |-> userId]
    /\ \E docs \in FindSorted(messages,
                        {i \in 1..Len(messages) : MessageFilter(messages[i], userId)}) :
          resp' = Response(200, "list", [i \in 1..Len(docs) |-> to_str_id(docs[i])])
    /\ UNCHANGED <<store, now, nextId, procs>>

\* ------------------------------------------------------------- workers
\* Two request workers.  A handler is a sequence of store calls; each store
\* call is atomic and the calls of the two workers interleave.
Procs == {1, 2}
IdleWorker == [pc |-> "ready", req |-> NoRequest, resp |-> NoResponse]
AllReady == \A p \in Procs : procs[p].pc = "ready"

\* register_user / login_user up to the lookup: find_one, then either the
\* return of the existing user or the decision to create one.
ConcLookup(p, op, name, email) ==
    LET found == ExistingUser(email)
        r == [op |-> op, name |-> name, email |-> email, found |-> found # None]
    IN /\ procs[p].pc = "ready"
       /\ procs' = [procs EXCEPT ![p] =
                       IF found # None
                       THEN [pc |-> "done", req |-> r,
                             resp |-> Response(200, "user", <<UserView(found[1])>>)]
                       ELSE [pc |-> "insert", req |-> r, resp |-> NoResponse]]
       /\ UNCHANGED <<store, now, nextId, req, resp>>

\* An insert step that looks the e-mail up again and returns the user found.
ConcInsertRechecking(p) ==
    LET r == procs[p].req
        again == ExistingUser(r.email)
    IN /\ procs[p].pc = "insert"
       /\ IF again # None
          THEN /\ procs' = [procs EXCEPT ![p] =
                              [pc |-> "done", req |-> r,
                               resp |-> Response(200, "user", <<UserView(again[1])>>)]]
               /\ UNCHANGED <<users, nextId>>
          ELSE /\ nextId <= MaxDocs
               /\ users' = Append(users, CreatedUser(r.name, r.email, nextId, now))
               /\ nextId' = nextId + 1
               /\ procs' = [procs EXCEPT ![p] =
                              [pc |-> "done", req |-> r,
                               resp |-> Response(200, "user",
                                          <<UserView(CreatedUser(r.name, r.email, nextId, now))>>)]]
       /\ UNCHANGED <<projects, payments, messages, now, req, resp>>

\* register_user / login_user after a lookup that found none:
\* create_document("user", data) and the return of the new user.
ConcInsert(p) ==
    LET r == procs[p].req
    IN /\ procs[p].pc = "insert"
       /\ nextId <= MaxDocs
       /\ users' = Append(users, CreatedUser(r.name, r.email, nextId, now))
       /\ nextId' = nextId + 1
       /\ procs' = [procs EXCEPT ![p] =
                       [pc |-> "done", req |-> r,
                        resp |-> Response(200, "user",
                                   <<UserView(CreatedUser(r.name, r.email, nextId, now))>>)]]
       /\ UNCHANGED <<projects, payments, messages, now, req, resp>>

Collection(kind) == IF kind = "project" THEN projects ELSE payments

\* update_project / update_payment up to and including update_one.
ConcUpdateOne(p, kind, id, payload) ==
    LET update == ModelDumpExcludeNone(payload)
        coll == Collection(kind)
        r == [op |-> "update", kind |-> kind, id |-> id, written |-> Stamped(update, now)]
        status == PatchStatus(coll, id, update)
    IN /\ procs[p].pc = "ready"
       /\ IF kind = "project"
          THEN projects' = PatchStore(projects, id, update, now) /\ UNCHANGED payments
          ELSE payments' = PatchStore(payments, id, update, now) /\ UNCHANGED projects
       /\ procs' = [procs EXCEPT ![p] =
                       IF DOMAIN update = {}
                       THEN [pc |-> "done", req |-> r, resp |-> Response(200, "not_updated", <<>>)]
                       ELSE IF status # 200
                       THEN [pc |-> "done", req |-> r, resp |-> Response(status, "error", <<>>)]
                       ELSE [pc |-> "reread", req |-> r, resp |-> NoResponse]]
       /\ UNCHANGED <<users, messages, now, nextId, req, resp>>

\* update_project / update_payment after update_one matched: the find_one
\* that re-reads the document, and the return.
ConcReread(p) ==
    LET r == procs[p].req
    IN /\ procs[p].pc = "reread"
       /\ procs' = [procs EXCEPT ![p] =
                       [pc |-> "done", req |-> r,
                        resp |-> Response(200, "doc",
                                   <<to_str_id(FindById(Collection(r.kind), ObjectIdOf(r.id))[1])>>)]]
       /\ UNCHANGED <<store, now, nextId, req, resp>>

\* Requests served one at a time before the two concurrent requests arrive.
ConcSetup ==
    /\ AllReady
    /\ \/ \E s \in StudentIds, ti \in Titles, f \in FileUrlInputs :
             create_project(s, ti, "Java", None, f)
       \/ \E s \in StudentIds, a \in Amounts : create_payment(s, None, a, None, None)

\* ------------------------------------------------------------- clock
Tick ==
    /\ now < MaxTime
    /\ now' = now + 1
    /\ UNCHANGED <<store, nextId, req, resp, procs>>

Init ==
    /\ users = <<>>
    /\ projects = <<>>
    /\ payments = <<>>
    /\ messages = <<>>
    /\ now = 0
    /\ nextId = 1
    /\ req = NoRequest
    /\ resp = NoResponse
    /\ procs = [p \in Procs |-> IdleWorker]

NextUsers ==
    \/ \E n \in RegisterNames, e \in Emails : register_user(n, e)
    \/ \E e \in Emails : login_user(e)
    \/ \E s \in IdStrings : get_user(s)

NextProjects ==
    \/ \E s \in StudentIds, ti \in Titles, te \in TechnologyInputs, f \in FileUrlInputs :
          create_project(s, ti, te, None, f)
    \/ \E s \in IdStrings, p \in ProjectUpdateInputs : update_project(s, p)

NextPayments ==
    \/ \E s \in StudentIds, a \in Amounts : create_payment(s, None, a, None, None)
    \/ \E s \in IdStrings, p \in PaymentUpdateInputs : update_payment(s, p)

NextMessages ==
    \/ \E f, t \in UserIds, c \in Contents : send_message(f, t, c)
    \/ \E u \in UserIds : list_messages(u)

\* Sequential execution: one request at a time, each run to completion.
Next == NextUsers \/ NextProjects \/ NextPayments \/ NextMessages \/ Tick

Spec == Init /\ [][Next]_vars

\* The same, restricted to the handlers of one part of the API.
SpecUsers == Init /\ [][NextUsers \/ Tick]_vars
SpecProjects == Init /\ [][NextProjects \/ Tick]_vars
SpecPatch == Init /\ [][NextProjects \/ NextPayments \/ Tick]_vars
SpecById == Init /\ [][NextUsers \/ NextProjects \/ NextPayments]_vars
SpecMessages == Init /\ [][NextMessages \/ Tick]_vars

\* Two overlapping requests: each worker serves one request, its store calls
\* interleaved with the other worker's.
NextConc ==
    \/ ConcSetup
    \/ \E p \in Procs, n \in RegisterNames, e \in Emails : ConcLookup(p, "register", n, e)
    \/ \E p \in Procs, e \in Emails : ConcLookup(p, "login", Title(LocalPart(e)), e)
    \/ \E p \in Procs : ConcInsert(p)
    \/ \E p \in Procs, s \in IdStrings, u \in ProjectUpdateInputs :
          ConcUpdateOne(p, "project", s, u)
    \/ \E p \in Procs, s \in IdStrings, u \in PaymentUpdateInputs :
          ConcUpdateOne(p, "payment", s, u)
    \/ \E p \in Procs : ConcReread(p)
    \/ Tick

SpecConc == Init /\ [][NextConc]_vars

\* ===================================================================
\* Properties
\* ===================================================================

\* The documents of a collection with the given id.
Stored(coll, id) == IsWellFormedId(id) /\ FindById(coll, ObjectIdOf(id)) # None
EmailCount(coll, email) == Cardinality({i \in 1..Len(coll) : coll[i].email = email})
EmptyFieldSet(payload) == \A k \in DOMAIN payload : payload[k] = None

\* C1: get_user, and update_project / update_payment with a non-empty field
\* set, answer a well-formed id that no stored document has with NotFound
\* (404), which is not the status answered for a malformed id.
C1_NotFoundDistinct ==
    [][\A s \in IdStrings :
          /\ (IsWellFormedId(s) /\ ~Stored(users, s) /\ get_user(s))
                => (resp'.status = NotFoundStatus /\ resp'.status # GetUserStatus(BadIdString))
          /\ \A u \in ProjectUpdateInputs :
                (IsWellFormedId(s) /\ ~Stored(projects, s) /\ ~EmptyFieldSet(u)
                    /\ update_project(s, u))
                => (/\ resp'.status = NotFoundStatus
                    /\ resp'.status #
                         PatchStatus(projects, BadIdString, ModelDumpExcludeNone(u)))
          /\ \A u \in PaymentUpdateInputs :
                (IsWellFormedId(s) /\ ~Stored(payments, s) /\ ~EmptyFieldSet(u)
                    /\ update_payment(s, u))
                => (/\ resp'.status = NotFoundStatus
                    /\ resp'.status #
                         PatchStatus(payments, BadIdString, ModelDumpExcludeNone(u)))]_vars

\* C2: every stored Project has status and paymentStatus inside the
\* enumerated sets of schemas.Project, whatever creates and updates ran.
C2_StoredProjectsInEnums ==
    \A i \in 1..Len(projects) :
        /\ projects[i].status \in Statuses
        /\ projects[i].paymentStatus \in PaymentStatuses

\* C3: under sequential execution a register or login call for an e-mail
\* that a stored User already has changes no stored User, creates none,
\* returns the existing record's id, name and role, and leaves exactly one
\* User with that e-mail.
C3_ExistingEmailReused ==
    [][\A e \in Emails :
          (/\ \/ \E n \in RegisterNames : register_user(n, e)
              \/ login_user(e)
           /\ EmailCount(users, e) > 0)
          => /\ users' = users
             /\ \E i \in 1..Len(users) :
                   /\ users[i].email = e
                   /\ resp' = Response(200, "user",
                                <<[id |-> StrOfId(users[i]._id), name |-> users[i].name,
                                   email |-> e, role |-> users[i].role]>>)
             /\ EmailCount(users', e) = 1]_vars

\* A register call with another name for a stored e-mail was answered with
\* the stored name.
C3_Witness ==
    /\ req.op = "register"
    /\ \E i \in 1..Len(users) :
          /\ users[i].email = req.email
          /\ users[i].name # req.name
          /\ resp.docs[1].name = users[i].name

\* C4: two register / login calls for the same e-mail whose lookups both
\* found no User both insert: once both have returned, two User documents
\* with that e-mail and different ids are stored, one returned by each call.
LostRace(p, q) ==
    /\ p # q
    /\ procs[p].pc = "done" /\ procs[q].pc = "done"
    /\ procs[p].req.op \in {"register", "login"}
    /\ procs[q].req.op \in {"register", "login"}
    /\ procs[p].req.email = procs[q].req.email
    /\ ~procs[p].req.found /\ ~procs[q].req.found

C4_BothInsert ==
    \A p, q \in Procs :
        LostRace(p, q) =>
            \E i, j \in 1..Len(users) :
                /\ i # j
                /\ users[i].email = procs[p].req.email
                /\ users[j].email = procs[p].req.email
                /\ users[i]._id # users[j]._id
                /\ procs[p].resp.docs[1].id = StrOfId(users[i]._id)
                /\ procs[q].resp.docs[1].id = StrOfId(users[j]._id)

\* Both lookups found nothing, both calls returned, the e-mail is stored twice.
C4_Witness ==
    \E p, q \in Procs :
        /\ LostRace(p, q)
        /\ EmailCount(users, procs[p].req.email) = 2
        /\ procs[p].resp.docs[1].id # procs[q].resp.docs[1].id

\* C5: a Project or Payment partial update with no field present, for any id
\* string, answers "no changes applied" and leaves every stored document, its
\* last-modified timestamp included, as it was.
C5_EmptyUpdateNoop ==
    [][\A s \in IdStrings :
          /\ \A u \in ProjectUpdateInputs :
                (EmptyFieldSet(u) /\ update_project(s, u))
                => (store' = store /\ resp' = Response(200, "not_updated", <<>>))
          /\ \A u \in PaymentUpdateInputs :
                (EmptyFieldSet(u) /\ update_payment(s, u))
                => (store' = store /\ resp' = Response(200, "not_updated", <<>>))]_vars

\* An empty update was answered "no changes applied" while a project last
\* modified before now is stored.
C5_Witness ==
    /\ req.op = "update_project"
    /\ resp = Response(200, "not_updated", <<>>)
    /\ \E i \in 1..Len(projects) : projects[i].updated_at < now

\* C6: a successful Project partial update changes, in the target, exactly
\* the supplied fields among status, paymentStatus, adminRemarks and
\* deliverables (deliverables replaced by the supplied list) and updated_at;
\* every other field of the target and every other document is unchanged.
MutableProjectFields == {"status", "paymentStatus", "adminRemarks", "deliverables"}
Supplied(payload) == {k \in DOMAIN payload : payload[k] # None}
SuppliedValue(payload, k) == IF k \in OptionalFields THEN payload[k] ELSE payload[k][1]

C6_UpdateFrame ==
    [][\A s \in IdStrings, u \in ProjectUpdateInputs :
          (resp'.kind = "doc" /\ update_project(s, u))
          => /\ users' = users /\ payments' = payments /\ messages' = messages
             /\ Supplied(u) \subseteq MutableProjectFields
             /\ Len(projects') = Len(projects)
             /\ \A i \in 1..Len(projects) :
                   IF StrOfId(projects[i]._id) = s
                   THEN /\ DOMAIN projects'[i] = DOMAIN projects[i]
                        /\ \A k \in DOMAIN projects[i] :
                              projects'[i][k] =
                                 IF k \in Supplied(u) THEN SuppliedValue(u, k)
                                 ELSE IF k = "updated_at" THEN now
                                 ELSE projects[i][k]
                   ELSE projects'[i] = projects[i]]_vars

\* An update succeeded on a project that holds a status, remarks and
\* deliverables written by updates, beside an untouched second document.
C6_Witness ==
    /\ req.op = "update_project"
    /\ resp.kind = "doc"
    /\ \E i \in 1..Len(projects) :
          /\ StrOfId(projects[i]._id) = resp.docs[1].id
          /\ projects[i].status = "Completed"
          /\ projects[i].adminRemarks = Some("ok")
          /\ projects[i].deliverables = <<"a.pdf">>
          /\ projects[i].created_at < projects[i].updated_at
    /\ Len(projects) + Len(payments) = 2

\* C7: once two overlapping partial updates of the same Project (or Payment)
\* have both written, the document holds, for every field only one of them
\* wrote, that update's value, and for every field both wrote, the value of
\* one of the two.
Wrote(p) ==
    /\ procs[p].req.op = "update"
    /\ procs[p].pc = "reread" \/ (procs[p].pc = "done" /\ procs[p].resp.kind = "doc")

SameTarget(p, q) ==
    /\ p # q /\ Wrote(p) /\ Wrote(q)
    /\ procs[p].req.kind = procs[q].req.kind
    /\ procs[p].req.id = procs[q].req.id

C7_NoLostUpdate ==
    \A p, q \in Procs :
        SameTarget(p, q) =>
            \E i \in 1..Len(Collection(procs[p].req.kind)) :
                LET doc == Collection(procs[p].req.kind)[i]
                    mine == procs[p].req.written
                    theirs == procs[q].req.written
                IN /\ StrOfId(doc._id) = procs[p].req.id
                   /\ \A k \in DOMAIN mine :
                         IF k \in DOMAIN theirs
                         THEN doc[k] \in {mine[k], theirs[k]}
                         ELSE doc[k] = mine[k]

\* Two updates of one project, one of status and one of paymentStatus, have
\* both returned, and each one's re-read shows the other's write: they
\* overlapped.
C7_Witness ==
    \E p, q \in Procs :
        /\ SameTarget(p, q)
        /\ procs[p].pc = "done" /\ procs[q].pc = "done"
        /\ procs[p].req.kind = "project"
        /\ DOMAIN procs[p].req.written = {"status", "updated_at"}
        /\ DOMAIN procs[q].req.written = {"paymentStatus", "updated_at"}
        /\ procs[p].resp.docs[1].paymentStatus = procs[q].req.written.paymentStatus
        /\ procs[q].resp.docs[1].status = procs[p].req.written.status

\* C8: listing Messages for user U returns exactly the stored messages sent
\* by U or to U, each once, ordered by creation time, latest first.
Involves(m, userId) == m.fromUserId = userId \/ m.toUserId = userId
\* The creation time an ISO text stands for.
TimeOfIso(text) == text[2]

C8_ListMessages ==
    req.op = "list_messages" =>
        LET n == Len(resp.docs)
            matching == {i \in 1..Len(messages) : Involves(messages[i], req.userId)}
        IN /\ resp.status = 200
           /\ n = Cardinality(matching)
           /\ \A i \in matching : \E j \in 1..n :
                 /\ resp.docs[j].id = StrOfId(messages[i]._id)
                 /\ resp.docs[j].fromUserId = messages[i].fromUserId
                 /\ resp.docs[j].toUserId = messages[i].toUserId
                 /\ resp.docs[j].content = messages[i].content
                 /\ TimeOfIso(resp.docs[j].created_at) = messages[i].created_at
           /\ \A j \in 1..n : \E i \in matching : resp.docs[j].id = StrOfId(messages[i]._id)
           /\ \A j, k \in 1..n :
                 j < k => TimeOfIso(resp.docs[j].created_at) >= TimeOfIso(resp.docs[k].created_at)

\* A listing of two of three stored messages, the one sent last listed first.
C8_Witness ==
    /\ req.op = "list_messages"
    /\ Len(messages) = 3
    /\ Len(resp.docs) = 2
    /\ resp.docs[1].id = StrOfId(messages[3]._id)
    /\ TimeOfIso(resp.docs[1].created_at) > TimeOfIso(resp.docs[2].created_at)

\* C9: the attach that create_project applies is an add-to-set: on any
\* stored deliverables it keeps every entry, adds the reference unless it is
\* there, and applied again changes nothing (a reference not there before
\* occurs exactly once); a Project created with file reference f is returned
\* with deliverables <<f>>, one created without (fileUrl absent or empty)
\* with empty deliverables.
Occurrences(list, f) == Cardinality({i \in 1..Len(list) : list[i] = f})

C9_AttachAddToSet ==
    [][/\ \A s \in StudentIds, ti \in Titles, te \in TechnologyInputs, f \in FileUrlInputs :
             (resp'.status = 200 /\ create_project(s, ti, te, None, f))
             => /\ resp'.docs[1].deliverables =
                      IF f # None /\ f[1] # "" THEN <<f[1]>> ELSE <<>>
                /\ projects'[Len(projects')].deliverables = resp'.docs[1].deliverables
       /\ \A i \in 1..Len(projects), f \in FileRefs :
             LET before == projects[i].deliverables
                 once == UpdateOneAttach(projects, projects[i]._id, f)
                 twice == UpdateOneAttach(once, projects[i]._id, f)
                 after == once[i].deliverables
             IN /\ Len(after) >= Len(before)
                /\ \A k \in 1..Len(before) : after[k] = before[k]
                /\ Occurrences(after, f) >= 1
                /\ Occurrences(before, f) = 0 => Occurrences(after, f) = 1
                /\ twice = once
                /\ \A j \in 1..Len(projects) : j # i => once[j] = projects[j]]_vars

\* A project created with a.pdf was returned with deliverables <<a.pdf>>,
\* beside a stored project whose deliverables an update had set.
C9_Witness ==
    /\ req.op = "create_project"
    /\ resp.status = 200
    /\ resp.docs[1].deliverables = <<"a.pdf">>
    /\ \E i \in 1..Len(projects) :
          /\ StrOfId(projects[i]._id) # resp.docs[1].id
          /\ projects[i].adminRemarks = Some("ok")
          /\ projects[i].deliverables = <<"a.pdf">>

\* C10: every store write that changes a document sets its updated_at to the
\* time of that write: update_project, update_payment, and the attach of
\* create_project (a write made when the clock reads now').
C10_WritesStampTime ==
    [][/\ \A s \in IdStrings, u \in ProjectUpdateInputs :
             (resp'.kind = "doc" /\ update_project(s, u))
             => \A i \in 1..Len(projects') :
                   StrOfId(projects'[i]._id) = s => projects'[i].updated_at = now
       /\ \A s \in IdStrings, u \in PaymentUpdateInputs :
             (resp'.kind = "doc" /\ update_payment(s, u))
             => \A i \in 1..Len(payments') :
                   StrOfId(payments'[i]._id) = s => payments'[i].updated_at = now
       /\ \A s \in StudentIds, ti \in Titles, te \in TechnologyInputs, f \in FileUrlInputs :
             (resp'.status = 200 /\ f # None /\ f[1] # "" /\ create_project(s, ti, te, None, f))
             => projects'[Len(projects')].updated_at = now']_vars
====
